---- MODULE Spec2Model ----
(***************************************************************************)
(* Model of the versejet HNSW vector index                                 *)
(* (src/internal/hnsw/csrc/vector_search.c).                               *)
(*                                                                         *)
(* Four specifications share the variables below:                          *)
(*   Spec      index creation (build_hnsw_graph / create_hnsw_index /      *)
(*             create_index) followed by knn_search;                       *)
(*   NodeSpec  arbitrary sequences of add_connection_to_node calls;        *)
(*   SerSpec   serialize_hnsw_graph, buffer corruption / truncation and    *)
(*             deserialize_hnsw_graph (with free_hnsw_graph);              *)
(*   BruteSpec the brute-force branch of knn_search on bounded stores.     *)
(*                                                                         *)
(* Conventions.  C arrays are TLA+ sequences, so C index i is TLA+ index   *)
(* i+1.  Coordinates are integers in tenths (1.0 is 10), and a distance is *)
(* the squared Euclidean distance of the scaled coordinates: sqrtf is      *)
(* strictly monotone on the values that occur, and the code only ever      *)
(* compares distances with < and >.  Heap allocations that the host can    *)
(* satisfy succeed, and a zero-size request yields a non-null pointer.     *)
(***************************************************************************)
EXTENDS Integers, Sequences, FiniteSets, TLC

VARIABLES
    pc,                       \* position of the caller / of the running routine
    vectors,                  \* the vector store handed to the index
    max_connections,          \* M
    max_connections_layer_zero, \* M0
    construction_search_width,  \* efConstruction
    nodes,                    \* graph->nodes (the initialised prefix during phase 1)
    entry_point_node_id,      \* graph->entry_point_node_id
    maximum_layer_in_graph,   \* graph->maximum_layer_in_graph
    current_node_id,          \* loop index of the insertion loop of the build
    use_hnsw_optimization,    \* index->use_hnsw_optimization (and hnsw_graph # NULL)
    query,                    \* the query of the last knn_search call
    k,                        \* the k of the last knn_search call
    result,                   \* the id array returned by the last knn_search call
    last_call,                \* arguments of the last add_connection_to_node call
    buffer,                   \* serialized bytes
    size,                     \* the size handed to deserialize_hnsw_graph
    tampered,                 \* how the buffer was changed after serialization
    outcome,                  \* what deserialize_hnsw_graph did
    search,                   \* the locals of the running search_layer / beam loop
    heap,                     \* a priority queue under test and its history
    cosine                    \* threshold and out_count of brute_force_knn_search

vars == <<pc, vectors, max_connections, max_connections_layer_zero,
          construction_search_width, nodes, entry_point_node_id,
          maximum_layer_in_graph, current_node_id, use_hnsw_optimization, query, k, result,
          last_call, buffer, size, tampered, outcome,
                   search, heap, cosine>>

-----------------------------------------------------------------------------
(* Bounds of the model. *)

\* largest layer the sampler may return
MaxLayer == 2
\* largest M and M0 tried
MaxM == 2
\* largest efConstruction tried when build_hnsw_graph is called directly
MaxEf == 1
\* largest k tried by knn_search on a built index
MaxK == 2

\* <float.h> FLT_MAX, the value returned for a dimension mismatch; larger than
\* every squared distance of the model
FLT_MAX == 1000000000

-----------------------------------------------------------------------------
(* Plain helpers. *)

Range(s) == {s[i] : i \in 1..Len(s)}

Min2(a, b) == IF a < b THEN a ELSE b

MaxOf(S) == CHOOSE x \in S : \A y \in S : y <= x

MinOf(S) == CHOOSE x \in S : \A y \in S : x <= y

\* C integer division, which truncates toward zero
CDiv(a, b) == IF a >= 0 THEN a \div b ELSE -((-a) \div b)

-----------------------------------------------------------------------------
(* Distance kernel. *)

Vec(d) == [data |-> d, len |-> Len(d)]

RECURSIVE SumSquares(_, _, _)
SumSquares(a, b, n) ==
    IF n = 0 THEN 0
    ELSE SumSquares(a, b, n - 1) + (a[n] - b[n]) * (a[n] - b[n])

\* calculate_euclidean_distance without the length check of lines 15-17: the
\* sum runs over the components both vectors have
DistanceWithoutLengthCheck(vector_a, vector_b) ==
    SumSquares(vector_a.data, vector_b.data, Min2(vector_a.len, vector_b.len))

calculate_euclidean_distance(vector_a, vector_b) ==
    IF vector_a.len # vector_b.len
    THEN FLT_MAX
    ELSE SumSquares(vector_a.data, vector_b.data, vector_a.len)

\* lines 15-23: how many elements of data[] one call of the kernel reads: none
\* when the lengths differ, else both vectors' components
ComponentReads(vector_a, vector_b) ==
    IF vector_a.len # vector_b.len THEN 0 ELSE 2 * vector_a.len

-----------------------------------------------------------------------------
(* Priority queue: a binary heap in an array of capacity `capacity`.       *)

create_priority_queue(capacity, is_max_heap) ==
    [candidates |-> <<>>, capacity |-> capacity, is_max_heap |-> is_max_heap]

Cand(node_id, distance) == [node_id |-> node_id, distance |-> distance]

swap_candidates(c, i, j) ==
    [c EXCEPT ![i + 1] = c[j + 1], ![j + 1] = c[i + 1]]

\* c is the candidates array with the element at child_index already stored
RECURSIVE heapify_up(_, _, _)
heapify_up(c, is_max_heap, child_index) ==
    LET parent_index == CDiv(child_index - 1, 2)
        should_swap ==
            IF is_max_heap
            THEN c[child_index + 1].distance > c[parent_index + 1].distance
            ELSE c[child_index + 1].distance < c[parent_index + 1].distance
    IN  IF parent_index < 0 THEN c
        ELSE IF should_swap
             THEN heapify_up(swap_candidates(c, child_index, parent_index),
                             is_max_heap, parent_index)
             ELSE c

\* heapify_down without the right-child comparison of lines 93-98
RECURSIVE heapify_down_left_only(_, _, _)
heapify_down_left_only(c, is_max_heap, parent_index) ==
    LET left_child == 2 * parent_index + 1
        Better(i, j) ==
            IF is_max_heap
            THEN c[i + 1].distance > c[j + 1].distance
            ELSE c[i + 1].distance < c[j + 1].distance
        target_index == IF left_child < Len(c) /\ Better(left_child, parent_index)
                        THEN left_child ELSE parent_index
    IN  IF target_index # parent_index
        THEN heapify_down_left_only(swap_candidates(c, parent_index, target_index),
                                    is_max_heap, target_index)
        ELSE c

\* c holds exactly the queue's `size` live elements
RECURSIVE heapify_down(_, _, _)
heapify_down(c, is_max_heap, parent_index) ==
    LET left_child == 2 * parent_index + 1
        right_child == 2 * parent_index + 2
        Better(i, j) ==
            IF is_max_heap
            THEN c[i + 1].distance > c[j + 1].distance
            ELSE c[i + 1].distance < c[j + 1].distance
        t1 == IF left_child < Len(c) /\ Better(left_child, parent_index)
              THEN left_child ELSE parent_index
        target_index == IF right_child < Len(c) /\ Better(right_child, t1)
                        THEN right_child ELSE t1
    IN  IF target_index # parent_index
        THEN heapify_down(swap_candidates(c, parent_index, target_index),
                          is_max_heap, target_index)
        ELSE c

\* insert_candidate with the test of line 114 written > instead of <
insert_candidate_keep_worst(queue, node_id, distance) ==
    LET c == queue.candidates
    IN  IF Len(c) < queue.capacity
        THEN [queue EXCEPT !.candidates =
                 heapify_up(Append(c, Cand(node_id, distance)),
                            queue.is_max_heap, Len(c))]
        ELSE IF queue.is_max_heap /\ distance > c[1].distance
        THEN [queue EXCEPT !.candidates =
                 heapify_down([c EXCEPT ![1] = Cand(node_id, distance)], TRUE, 0)]
        ELSE IF ~queue.is_max_heap /\ distance > c[1].distance
        THEN [queue EXCEPT !.candidates =
                 heapify_down([c EXCEPT ![1] = Cand(node_id, distance)], FALSE, 0)]
        ELSE queue

insert_candidate(queue, node_id, distance) ==
    LET c == queue.candidates
    IN  IF Len(c) < queue.capacity
        THEN [queue EXCEPT !.candidates =
                 heapify_up(Append(c, Cand(node_id, distance)),
                            queue.is_max_heap, Len(c))]
        ELSE IF queue.is_max_heap /\ distance < c[1].distance
        THEN [queue EXCEPT !.candidates =
                 heapify_down([c EXCEPT ![1] = Cand(node_id, distance)], TRUE, 0)]
        ELSE IF ~queue.is_max_heap /\ distance > c[1].distance
        THEN [queue EXCEPT !.candidates =
                 heapify_down([c EXCEPT ![1] = Cand(node_id, distance)], FALSE, 0)]
        ELSE queue

\* called on a non-empty queue only; yields the removed root and the queue left
extract_top_candidate(queue) ==
    LET c == queue.candidates
        n == Len(c) - 1
        moved == IF n > 0
                 THEN heapify_down([SubSeq(c, 1, n) EXCEPT ![1] = c[n + 1]],
                                   queue.is_max_heap, 0)
                 ELSE <<>>
    IN  [top |-> c[1], queue |-> [queue EXCEPT !.candidates = moved]]

-----------------------------------------------------------------------------
(* Node store. *)

\* capacity of a fresh neighbor array: 32 at layer 0, 16 above
InitialCapacity(layer) == IF layer = 0 THEN 32 ELSE 16

create_hnsw_node(vector_id, maximum_layer) ==
    [vector_id |-> vector_id,
     maximum_layer |-> maximum_layer,
     layer_connections |-> [l \in 1..(maximum_layer + 1) |-> <<>>],
     allocated_connection_sizes |->
         [l \in 1..(maximum_layer + 1) |-> InitialCapacity(l - 1)]]

connection_counts(node, layer) == Len(node.layer_connections[layer + 1])

\* add_connection_to_node without the scan of lines 177-181
add_connection_without_scan(node, layer, connected_node_id) ==
    IF layer > node.maximum_layer THEN node
    ELSE [node EXCEPT !.layer_connections[layer + 1] = Append(@, connected_node_id)]

add_connection_to_node(node, layer, connected_node_id) ==
    IF layer > node.maximum_layer THEN node
    ELSE IF connected_node_id \in Range(node.layer_connections[layer + 1])
    THEN node
    ELSE LET grown ==
                 IF connection_counts(node, layer)
                        >= node.allocated_connection_sizes[layer + 1]
                 THEN [node EXCEPT !.allocated_connection_sizes[layer + 1] = 2 * @]
                 ELSE node
         IN  [grown EXCEPT !.layer_connections[layer + 1] =
                               Append(@, connected_node_id)]

-----------------------------------------------------------------------------
(* Graph builder. *)

\* TrackEntryPoint with the comparison of line 229 written >= instead of >
TrackEntryPointOnTie(node_layer, vector_index, max_layer, entry) ==
    IF node_layer >= max_layer
    THEN [max_layer |-> node_layer, entry |-> vector_index]
    ELSE [max_layer |-> max_layer, entry |-> entry]

\* lines 229-232: the running maximum layer and the node that first attains it
TrackEntryPoint(node_layer, vector_index, max_layer, entry) ==
    IF node_layer > max_layer
    THEN [max_layer |-> node_layer, entry |-> vector_index]
    ELSE [max_layer |-> max_layer, entry |-> entry]

\* lines 257-270: one pass over the neighbor list conns of the node the layer
\* started from, keeping the strictly closest id seen
RECURSIVE GreedyScan(_, _, _, _, _)
GreedyScan(conns, i, current_vector, best_distance, current_search_node) ==
    IF i > Len(conns) THEN current_search_node
    ELSE LET neighbor_id == conns[i]
             neighbor_distance ==
                 calculate_euclidean_distance(current_vector, vectors[neighbor_id + 1])
         IN  IF neighbor_distance < best_distance
             THEN GreedyScan(conns, i + 1, current_vector, neighbor_distance, neighbor_id)
             ELSE GreedyScan(conns, i + 1, current_vector, best_distance,
                             current_search_node)

\* lines 247-272: greedy descent from search_layer down to stop_layer + 1
RECURSIVE GreedyDescent(_, _, _, _, _)
GreedyDescent(g, current_vector, current_search_node, search_layer, stop_layer) ==
    IF search_layer <= stop_layer THEN current_search_node
    ELSE LET search_node == g[current_search_node + 1]
             best_distance ==
                 calculate_euclidean_distance(current_vector,
                                              vectors[current_search_node + 1])
             next ==
                 IF search_layer <= search_node.maximum_layer
                 THEN GreedyScan(search_node.layer_connections[search_layer + 1], 1,
                                 current_vector, best_distance, current_search_node)
                 ELSE current_search_node
         IN  GreedyDescent(g, current_vector, next, search_layer - 1, stop_layer)

\* lines 293-309: the neighbors of the popped candidate, offered to both queues
RECURSIVE BuildExplore(_, _, _, _, _, _)
BuildExplore(conns, i, current_vector, layer_candidates, visited_nodes, width) ==
    IF i > Len(conns)
    THEN [layer_candidates |-> layer_candidates, visited_nodes |-> visited_nodes]
    ELSE LET neighbor_id == conns[i]
             neighbor_distance ==
                 calculate_euclidean_distance(current_vector, vectors[neighbor_id + 1])
         IN  IF Len(visited_nodes.candidates) < width
                \/ neighbor_distance < visited_nodes.candidates[1].distance
             THEN BuildExplore(conns, i + 1, current_vector,
                      insert_candidate(layer_candidates, neighbor_id, neighbor_distance),
                      insert_candidate(visited_nodes, neighbor_id, neighbor_distance),
                      width)
             ELSE BuildExplore(conns, i + 1, current_vector, layer_candidates,
                               visited_nodes, width)

\* lines 287-311: the beam search loop, run until the frontier is empty; yields
\* the frontier queue as the loop leaves it
RECURSIVE BuildBeamLoop(_, _, _, _, _, _)
BuildBeamLoop(g, current_vector, connection_layer, layer_candidates, visited_nodes, width) ==
    IF Len(layer_candidates.candidates) > 0
    THEN LET ex == extract_top_candidate(layer_candidates)
             candidate_node == g[ex.top.node_id + 1]
             after ==
                 IF connection_layer <= candidate_node.maximum_layer
                 THEN BuildExplore(candidate_node.layer_connections[connection_layer + 1],
                                   1, current_vector, ex.queue, visited_nodes, width)
                 ELSE [layer_candidates |-> ex.queue, visited_nodes |-> visited_nodes]
         IN  BuildBeamLoop(g, current_vector, connection_layer, after.layer_candidates,
                           after.visited_nodes, width)
    ELSE layer_candidates

\* lines 321-325: pop up to max_conn candidates off the frontier into an array
RECURSIVE DrainCandidates(_, _, _)
DrainCandidates(layer_candidates, candidates_array, max_conn) ==
    IF Len(layer_candidates.candidates) > 0 /\ Len(candidates_array) < max_conn
    THEN LET ex == extract_top_candidate(layer_candidates)
         IN  DrainCandidates(ex.queue, Append(candidates_array, ex.top), max_conn)
    ELSE candidates_array

\* lines 328-339: the distinct ids of the array, in order, at most max_conn
RECURSIVE SelectUnique(_, _, _, _)
SelectUnique(candidates_array, i, selected_connections, max_conn) ==
    IF i <= Len(candidates_array) /\ Len(selected_connections) < max_conn
    THEN IF candidates_array[i].node_id \in Range(selected_connections)
         THEN SelectUnique(candidates_array, i + 1, selected_connections, max_conn)
         ELSE SelectUnique(candidates_array, i + 1,
                  Append(selected_connections, candidates_array[i].node_id), max_conn)
    ELSE selected_connections

\* lines 341-345: link the inserted node with every selected id, both ways
RECURSIVE MakeBidirectional(_, _, _, _, _)
MakeBidirectional(g, node_id, connection_layer, selected_connections, i) ==
    IF i > Len(selected_connections) THEN g
    ELSE LET other == selected_connections[i]
             g1 == [g EXCEPT ![node_id + 1] =
                       add_connection_to_node(@, connection_layer, other)]
             g2 == [g1 EXCEPT ![other + 1] =
                       add_connection_to_node(@, connection_layer, node_id)]
         IN  MakeBidirectional(g2, node_id, connection_layer, selected_connections, i + 1)

\* lines 278-350: one iteration of the connection-layer loop
ConnectAtLayer(g, node_id, connection_layer, current_search_node) ==
    LET current_vector == vectors[node_id + 1]
        entry_distance ==
            calculate_euclidean_distance(current_vector, vectors[current_search_node + 1])
        layer_candidates ==
            insert_candidate(create_priority_queue(construction_search_width, FALSE),
                             current_search_node, entry_distance)
        visited_nodes ==
            insert_candidate(create_priority_queue(construction_search_width * 2, TRUE),
                             current_search_node, entry_distance)
        left == BuildBeamLoop(g, current_vector, connection_layer, layer_candidates,
                              visited_nodes, construction_search_width)
        max_conn == IF connection_layer = 0 THEN max_connections_layer_zero
                    ELSE max_connections
        candidates_array == DrainCandidates(left, <<>>, max_conn)
        selected_connections == SelectUnique(candidates_array, 1, <<>>, max_conn)
    IN  MakeBidirectional(g, node_id, connection_layer, selected_connections, 1)

\* lines 275-351: the connection-layer loop, from the node's top layer down to 0
RECURSIVE ConnectLayers(_, _, _, _)
ConnectLayers(g, node_id, connection_layer, current_search_node) ==
    IF connection_layer < 0 THEN g
    ELSE ConnectLayers(ConnectAtLayer(g, node_id, connection_layer, current_search_node),
                       node_id, connection_layer - 1, current_search_node)

\* lines 237-353: the body of the insertion loop for one node
InsertNode(g, node_id) ==
    LET current_node == g[node_id + 1]
        current_search_node ==
            GreedyDescent(g, vectors[node_id + 1], entry_point_node_id,
                          maximum_layer_in_graph, current_node.maximum_layer)
    IN  ConnectLayers(g, node_id, current_node.maximum_layer, current_search_node)


-----------------------------------------------------------------------------
(* Layer search and KNN query. *)

\* SearchExplore with the test of lines 398-399 cut to its first half: a
\* neighbor is kept only while fewer than search_width results are held
RECURSIVE SearchExploreSizeOnly(_, _, _, _, _, _, _)
SearchExploreSizeOnly(conns, i, q, candidates, visited, visited_flags, search_width) ==
    IF i > Len(conns)
    THEN [candidates |-> candidates, visited |-> visited,
          visited_flags |-> visited_flags]
    ELSE LET neighbor_id == conns[i]
             neighbor_distance ==
                 calculate_euclidean_distance(q, vectors[neighbor_id + 1])
         IN  IF neighbor_id \in visited_flags
             THEN SearchExploreSizeOnly(conns, i + 1, q, candidates, visited,
                                        visited_flags, search_width)
             ELSE IF Len(visited.candidates) < search_width
             THEN SearchExploreSizeOnly(conns, i + 1, q,
                      insert_candidate(candidates, neighbor_id, neighbor_distance),
                      insert_candidate(visited, neighbor_id, neighbor_distance),
                      visited_flags \cup {neighbor_id}, search_width)
             ELSE SearchExploreSizeOnly(conns, i + 1, q, candidates, visited,
                                        visited_flags \cup {neighbor_id}, search_width)

\* lines 386-405: the unvisited neighbors of the popped candidate
RECURSIVE SearchExplore(_, _, _, _, _, _, _)
SearchExplore(conns, i, q, candidates, visited, visited_flags, search_width) ==
    IF i > Len(conns)
    THEN [candidates |-> candidates, visited |-> visited,
          visited_flags |-> visited_flags]
    ELSE LET neighbor_id == conns[i]
             neighbor_distance ==
                 calculate_euclidean_distance(q, vectors[neighbor_id + 1])
         IN  IF neighbor_id \in visited_flags
             THEN SearchExplore(conns, i + 1, q, candidates, visited, visited_flags,
                                search_width)
             ELSE IF Len(visited.candidates) < search_width
                     \/ neighbor_distance < visited.candidates[1].distance
             THEN SearchExplore(conns, i + 1, q,
                      insert_candidate(candidates, neighbor_id, neighbor_distance),
                      insert_candidate(visited, neighbor_id, neighbor_distance),
                      visited_flags \cup {neighbor_id}, search_width)
             ELSE SearchExplore(conns, i + 1, q, candidates, visited,
                                visited_flags \cup {neighbor_id}, search_width)

\* lines 375-407: the search loop; yields the visited queue as the loop leaves it
RECURSIVE SearchLoop(_, _, _, _, _, _, _)
SearchLoop(g, q, layer, candidates, visited, visited_flags, search_width) ==
    IF Len(candidates.candidates) > 0
    THEN LET ex == extract_top_candidate(candidates)
             current == ex.top
             current_node == g[current.node_id + 1]
         IN  IF Len(visited.candidates) >= search_width
                /\ current.distance > visited.candidates[1].distance
             THEN visited
             ELSE IF layer <= current_node.maximum_layer
             THEN LET after == SearchExplore(current_node.layer_connections[layer + 1],
                                   1, q, ex.queue, visited, visited_flags, search_width)
                  IN  SearchLoop(g, q, layer, after.candidates, after.visited,
                                 after.visited_flags, search_width)
             ELSE SearchLoop(g, q, layer, ex.queue, visited, visited_flags,
                             search_width)
    ELSE visited

\* DrainVisited filling the result array from its front
RECURSIVE DrainVisitedForward(_, _)
DrainVisitedForward(visited, results) ==
    IF Len(visited.candidates) = 0 THEN results
    ELSE LET ex == extract_top_candidate(visited)
         IN  DrainVisitedForward(ex.queue, Append(results, ex.top.node_id))

\* lines 410-417: empty the max-heap, filling the result array from its end
RECURSIVE DrainVisited(_, _)
DrainVisited(visited, results) ==
    IF Len(visited.candidates) = 0 THEN results
    ELSE LET ex == extract_top_candidate(visited)
         IN  DrainVisited(ex.queue, <<ex.top.node_id>> \o results)

search_layer(g, q, entry_point, layer, search_width) ==
    LET entry_distance == calculate_euclidean_distance(q, vectors[entry_point + 1])
        candidates ==
            insert_candidate(create_priority_queue(search_width, FALSE),
                             entry_point, entry_distance)
        visited ==
            insert_candidate(create_priority_queue(search_width * 2, TRUE),
                             entry_point, entry_distance)
    IN  DrainVisited(SearchLoop(g, q, layer, candidates, visited, {entry_point},
                                search_width), <<>>)

\* lines 438-445: the descent through the layers above 0 with search width 1
RECURSIVE SearchDescent(_, _, _, _)
SearchDescent(g, q, current_closest, layer) ==
    IF layer <= 0 THEN current_closest
    ELSE LET layer_results == search_layer(g, q, current_closest, layer, 1)
             next == IF Len(layer_results) > 0 THEN layer_results[1]
                     ELSE current_closest
         IN  SearchDescent(g, q, next, layer - 1)

\* the index holds a graph; yields the returned array (of return_count ids)
hnsw_knn_search(q, kk, search_width) ==
    LET current_closest ==
            SearchDescent(nodes, q, entry_point_node_id, maximum_layer_in_graph)
        all_candidates == search_layer(nodes, q, current_closest, 0, search_width)
        return_count == Min2(Len(all_candidates), kk)
    IN  SubSeq(all_candidates, 1, return_count)

\* BruteInsert with the comparison of line 509 written <= instead of <
RECURSIVE BruteInsertOnTie(_, _, _, _, _)
BruteInsertOnTie(arrays, vector_index, current_distance, insertion_position, kk) ==
    IF insertion_position >= kk THEN arrays
    ELSE IF current_distance <= arrays.distances[insertion_position + 1]
    THEN [neighbors |->
              [i \in 1..kk |->
                  IF i - 1 < insertion_position THEN arrays.neighbors[i]
                  ELSE IF i - 1 = insertion_position THEN vector_index
                  ELSE arrays.neighbors[i - 1]],
          distances |->
              [i \in 1..kk |->
                  IF i - 1 < insertion_position THEN arrays.distances[i]
                  ELSE IF i - 1 = insertion_position THEN current_distance
                  ELSE arrays.distances[i - 1]]]
    ELSE BruteInsertOnTie(arrays, vector_index, current_distance,
                          insertion_position + 1, kk)

\* lines 508-519: insert one vector into the sorted arrays of length kk
RECURSIVE BruteInsert(_, _, _, _, _)
BruteInsert(arrays, vector_index, current_distance, insertion_position, kk) ==
    IF insertion_position >= kk THEN arrays
    ELSE IF current_distance < arrays.distances[insertion_position + 1]
    THEN [neighbors |->
              [i \in 1..kk |->
                  IF i - 1 < insertion_position THEN arrays.neighbors[i]
                  ELSE IF i - 1 = insertion_position THEN vector_index
                  ELSE arrays.neighbors[i - 1]],
          distances |->
              [i \in 1..kk |->
                  IF i - 1 < insertion_position THEN arrays.distances[i]
                  ELSE IF i - 1 = insertion_position THEN current_distance
                  ELSE arrays.distances[i - 1]]]
    ELSE BruteInsert(arrays, vector_index, current_distance, insertion_position + 1, kk)

\* lines 505-520: the scan over the store
RECURSIVE BruteScan(_, _, _, _)
BruteScan(arrays, vector_index, q, kk) ==
    IF vector_index >= Len(vectors) THEN arrays
    ELSE BruteScan(BruteInsert(arrays, vector_index,
                       calculate_euclidean_distance(q, vectors[vector_index + 1]), 0, kk),
                   vector_index + 1, q, kk)

\* lines 497-523: the brute-force branch of knn_search
BruteForce(q, kk) ==
    BruteScan([neighbors |-> [i \in 1..kk |-> -1],
               distances |-> [i \in 1..kk |-> FLT_MAX]], 0, q, kk).neighbors

knn_search(q, kk) ==
    IF use_hnsw_optimization
    THEN hnsw_knn_search(q, kk, kk * 4)
    ELSE BruteForce(q, kk)

-----------------------------------------------------------------------------
(* Specification Spec: build an index, then query it. *)

\* the 2-D store (0,0), (1,0), (0,1), (10,10), in tenths
Store4 == <<Vec(<<0, 0>>), Vec(<<10, 0>>), Vec(<<0, 10>>), Vec(<<100, 100>>)>>

\* the same points with the far one first
StoreFarFirst == <<Vec(<<100, 100>>), Vec(<<0, 0>>), Vec(<<10, 0>>)>>

Stores == {SubSeq(Store4, 1, n) : n \in 1..4} \cup {StoreFarFirst}

\* the query (0.1, 0.1) and a query near the far point
Queries == {Vec(<<1, 1>>), Vec(<<90, 90>>)}

NoSerializer ==
    /\ last_call = <<>>
    /\ buffer = <<>>
    /\ size = 0
    /\ tampered = "none"
    /\ outcome = [status |-> "none"]

\* no search_layer call, queue exercise or cosine search has been started
NoCallRunning ==
    /\ search = [status |-> "none"]
    /\ heap = [status |-> "none"]
    /\ cosine = [status |-> "none"]

Init ==
    /\ pc = "start"
    /\ vectors \in Stores
    /\ max_connections = 0
    /\ max_connections_layer_zero = 0
    /\ construction_search_width = 0
    /\ nodes = <<>>
    /\ entry_point_node_id = 0
    /\ maximum_layer_in_graph = 0
    /\ current_node_id = 0
    /\ use_hnsw_optimization = FALSE
    /\ query = Vec(<<>>)
    /\ k = 0
    /\ result = <<>>
    /\ NoSerializer
    /\ NoCallRunning

\* lines 609-616: an index without a graph
create_index ==
    /\ pc = "start"
    /\ pc' = "indexed"
    /\ use_hnsw_optimization' = FALSE
    /\ UNCHANGED <<vectors, max_connections, max_connections_layer_zero,
                   construction_search_width, nodes, entry_point_node_id,
                   maximum_layer_in_graph, current_node_id, query, k, result,
                   last_call, buffer, size, tampered, outcome,
                   search, heap, cosine>>

\* lines 213-222: the graph header, entry point 0 and maximum layer 0
BuildStart(m, m0, width) ==
    /\ pc' = "alloc"
    /\ max_connections' = m
    /\ max_connections_layer_zero' = m0
    /\ construction_search_width' = width
    /\ nodes' = <<>>
    /\ entry_point_node_id' = 0
    /\ maximum_layer_in_graph' = 0
    /\ UNCHANGED <<vectors, current_node_id, use_hnsw_optimization, query, k, result,
                   last_call, buffer, size, tampered, outcome,
                   search, heap, cosine>>

\* lines 618-626: create_hnsw_index builds with efConstruction = 2 * M
create_hnsw_index ==
    /\ pc = "start"
    /\ \E m \in 1..MaxM, m0 \in 1..MaxM : BuildStart(m, m0, m * 2)

\* lines 210-222: build_hnsw_graph called with its own efConstruction
build_hnsw_graph ==
    /\ pc = "start"
    /\ \E m \in 1..MaxM, m0 \in 1..MaxM, width \in 1..MaxEf : BuildStart(m, m0, width)

\* lines 225-233: one iteration of the node initialisation loop; the sampled
\* layer is any layer up to MaxLayer
InitializeNode ==
    /\ pc = "alloc"
    /\ Len(nodes) < Len(vectors)
    /\ \E node_layer \in 0..MaxLayer :
          LET vector_index == Len(nodes)
              t == TrackEntryPoint(node_layer, vector_index, maximum_layer_in_graph,
                                   entry_point_node_id)
          IN  /\ nodes' = Append(nodes, create_hnsw_node(vector_index, node_layer))
              /\ maximum_layer_in_graph' = t.max_layer
              /\ entry_point_node_id' = t.entry
    /\ UNCHANGED <<pc, vectors, max_connections, max_connections_layer_zero,
                   construction_search_width, current_node_id, use_hnsw_optimization,
                   query, k, result, last_call, buffer, size, tampered, outcome,
                   search, heap, cosine>>

\* line 236: the insertion loop starts at node 1
StartInsertion ==
    /\ pc = "alloc"
    /\ Len(nodes) = Len(vectors)
    /\ pc' = "insert"
    /\ current_node_id' = 1
    /\ UNCHANGED <<vectors, max_connections, max_connections_layer_zero,
                   construction_search_width, nodes, entry_point_node_id,
                   maximum_layer_in_graph, use_hnsw_optimization, query, k, result,
                   last_call, buffer, size, tampered, outcome,
                   search, heap, cosine>>

\* lines 236-354: one iteration of the insertion loop
InsertNextNode ==
    /\ pc = "insert"
    /\ current_node_id < Len(vectors)
    /\ nodes' = InsertNode(nodes, current_node_id)
    /\ current_node_id' = current_node_id + 1
    /\ UNCHANGED <<pc, vectors, max_connections, max_connections_layer_zero,
                   construction_search_width, entry_point_node_id,
                   maximum_layer_in_graph, use_hnsw_optimization, query, k, result,
                   last_call, buffer, size, tampered, outcome,
                   search, heap, cosine>>

\* line 356 (and 624-627): the build returns and the index holds the graph
BuildReturn ==
    /\ pc = "insert"
    /\ current_node_id >= Len(vectors)
    /\ pc' = "indexed"
    /\ use_hnsw_optimization' = TRUE
    /\ UNCHANGED <<vectors, max_connections, max_connections_layer_zero,
                   construction_search_width, nodes, entry_point_node_id,
                   maximum_layer_in_graph, current_node_id, query, k, result,
                   last_call, buffer, size, tampered, outcome,
                   search, heap, cosine>>

\* lines 484-524 (and 426-458, 364-373): what one knn_search call does.  No
\* argument is examined before use.  A null query is dereferenced by the first
\* distance computation (line 506 or 370).  With k = 0 on an index with a graph
\* the layer-0 search has width 0: both queues have capacity 0 and
\* insert_candidate (line 120) reads candidates[0] of a zero-size block; the
\* read may fault, and otherwise the call returns an empty array.  With k = 0
\* and no graph the loops do not run and the zero-size array is returned.
KnnSearchOutcome(q, query_null, kk, root_read_faults) ==
    IF query_null
    THEN [result |-> <<>>,
          outcome |-> [status |-> "crash", query_null |-> TRUE, null_deref |-> TRUE,
                       zero_capacity_read |-> FALSE]]
    ELSE IF use_hnsw_optimization /\ kk * 4 <= 0
    THEN [result |-> <<>>,
          outcome |-> [status |-> IF root_read_faults THEN "crash" ELSE "returned",
                       query_null |-> FALSE, null_deref |-> FALSE,
                       zero_capacity_read |-> TRUE]]
    ELSE [result |-> knn_search(q, kk),
          outcome |-> [status |-> "returned", query_null |-> FALSE,
                       null_deref |-> FALSE, zero_capacity_read |-> FALSE]]

\* lines 484-524: knn_search on the finished index, with any k from 0 and a
\* query that may be null
KnnSearchCall ==
    /\ pc = "indexed"
    /\ \E q \in Queries, query_null \in BOOLEAN, kk \in 0..MaxK,
          root_read_faults \in BOOLEAN :
          LET o == KnnSearchOutcome(q, query_null, kk, root_read_faults)
          IN  /\ query' = q
              /\ k' = kk
              /\ result' = o.result
              /\ outcome' = o.outcome
    /\ pc' = "searched"
    /\ UNCHANGED <<vectors, max_connections, max_connections_layer_zero,
                   construction_search_width, nodes, entry_point_node_id,
                   maximum_layer_in_graph, current_node_id, use_hnsw_optimization,
                   last_call, buffer, size, tampered, search, heap, cosine>>

Next ==
    \/ create_index
    \/ create_hnsw_index
    \/ build_hnsw_graph
    \/ InitializeNode
    \/ StartInsertion
    \/ InsertNextNode
    \/ BuildReturn
    \/ KnnSearchCall

Spec == Init /\ [][Next]_vars

-----------------------------------------------------------------------------
(* Properties of the built graph (specification Spec). *)

\* the build has returned and the index holds its graph
BuildReturned == pc \in {"indexed", "searched"} /\ use_hnsw_optimization

NodeIds(g) == 0..(Len(g) - 1)

TopLayers(g) == {g[i + 1].maximum_layer : i \in NodeIds(g)}

\* a and b are joined by a layer-0 edge in either direction
Adjacent0(g, a, b) ==
    \/ b \in Range(g[a + 1].layer_connections[1])
    \/ a \in Range(g[b + 1].layer_connections[1])

RECURSIVE Reachable0(_, _)
Reachable0(g, seen) ==
    LET more == {b \in NodeIds(g) : \E a \in seen : Adjacent0(g, a, b)}
    IN  IF more \subseteq seen THEN seen ELSE Reachable0(g, seen \cup more)

WeaklyConnected0(g) == Reachable0(g, {0}) = NodeIds(g)

\* What the build does: the beam loop of lines 287-311 runs until the frontier
\* is empty, the selection of lines 321-325 then drains that empty frontier, and
\* no connection is ever made.
NoEdgeEverCreated ==
    \A i \in 1..Len(nodes) :
        \A l \in 1..Len(nodes[i].layer_connections) :
            nodes[i].layer_connections[l] = <<>>

\* C1: after build_hnsw_graph returns for N >= 2, the layer-0 neighbor lists
\* form a weakly connected graph over all N nodes.
C1_LayerZeroConnected ==
    (BuildReturned /\ Len(vectors) >= 2) => WeaklyConnected0(nodes)

\* C2: after the build returns every neighbor m of a node n on layer l has a
\* top layer of at least l and lists n on layer l.  (Under Spec this holds of
\* an edgeless graph only: see NoEdgeEverCreated.)
C2_BidirectionalClosure ==
    BuildReturned =>
        \A n \in NodeIds(nodes) :
            \A l \in 0..nodes[n + 1].maximum_layer :
                \A m \in Range(nodes[n + 1].layer_connections[l + 1]) :
                    /\ l <= nodes[m + 1].maximum_layer
                    /\ n \in Range(nodes[m + 1].layer_connections[l + 1])

\* C3: during the insertion phase and after the build returns, the graph's
\* maximum layer is the largest top layer of any node, and the entry point is
\* the lowest-id node whose top layer is that maximum.
C3_EntryPointIsFirstMaximum ==
    (pc = "insert" \/ BuildReturned) =>
        /\ maximum_layer_in_graph = MaxOf(TopLayers(nodes))
        /\ nodes[entry_point_node_id + 1].maximum_layer = maximum_layer_in_graph
        /\ entry_point_node_id =
               MinOf({i \in NodeIds(nodes) :
                         nodes[i + 1].maximum_layer = maximum_layer_in_graph})

\* C3 witness: a returned build whose entry point is not node 0 and whose
\* maximum layer is attained again by a later node.
C3_Witness ==
    /\ BuildReturned
    /\ entry_point_node_id > 0
    /\ \E i \in NodeIds(nodes) :
          /\ i > entry_point_node_id
          /\ nodes[i + 1].maximum_layer = maximum_layer_in_graph

\* C13: a knn_search call with k <= 0 or a null query reports an invalid
\* argument to its caller and touches no array or heap block: it neither
\* dereferences the query nor reads the root of a zero-capacity queue.
C13_InvalidArgumentReported ==
    (pc = "searched" /\ (k <= 0 \/ outcome.query_null)) =>
        /\ outcome.status = "invalid_argument"
        /\ ~outcome.null_deref
        /\ ~outcome.zero_capacity_read

\* C5: on the store (0,0), (1,0), (0,1), (10,10) with query (0.1,0.1) and k = 2,
\* knn_search returns [0,1] or [0,2], with or without an HNSW graph.
C5_TwoNearest ==
    (pc = "searched" /\ ~outcome.query_null
        /\ vectors = Store4 /\ query = Vec(<<1, 1>>) /\ k = 2) =>
        result \in {<<0, 1>>, <<0, 2>>}

-----------------------------------------------------------------------------
(* Specification NodeSpec: any sequence of add_connection_to_node calls on *)
(* one node.                                                               *)

\* largest top layer of the node
NodeTop == 1
\* largest neighbor id passed to add_connection_to_node
MaxConnId == 1

\* a node whose layer-0 array is filled to its initial capacity (ids 101..)
FullNode(top) ==
    [create_hnsw_node(0, top) EXCEPT
        !.layer_connections[1] = [i \in 1..InitialCapacity(0) |-> 100 + i]]

NodeInit ==
    /\ pc = "node"
    /\ \E top \in 0..NodeTop :
          nodes \in {<<create_hnsw_node(0, top)>>, <<FullNode(top)>>}
    /\ vectors = <<>>
    /\ max_connections = 0
    /\ max_connections_layer_zero = 0
    /\ construction_search_width = 0
    /\ entry_point_node_id = 0
    /\ maximum_layer_in_graph = 0
    /\ current_node_id = 0
    /\ use_hnsw_optimization = FALSE
    /\ query = Vec(<<>>)
    /\ k = 0
    /\ result = <<>>
    /\ NoSerializer
    /\ NoCallRunning

\* lines 173-194: one call, at any layer up to one above the node's top layer
AddConnectionCall ==
    /\ pc \in {"node", "called"}
    /\ \E layer \in 0..(NodeTop + 1), id \in 0..MaxConnId :
          /\ nodes' = <<add_connection_to_node(nodes[1], layer, id)>>
          /\ last_call' = [layer |-> layer, id |-> id, before |-> nodes[1]]
    /\ pc' = "called"
    /\ UNCHANGED <<vectors, max_connections, max_connections_layer_zero,
                   construction_search_width, entry_point_node_id,
                   maximum_layer_in_graph, current_node_id, use_hnsw_optimization,
                   query, k, result, buffer, size, tampered, outcome,
                   search, heap, cosine>>

NodeNext == AddConnectionCall

NodeSpec == NodeInit /\ [][NodeNext]_vars

IsDuplicateFree(s) == \A i, j \in 1..Len(s) : s[i] = s[j] => i = j

\* C4: every per-layer neighbor list is duplicate-free after any sequence of
\* add_connection_to_node calls; a call with an id already in the layer's list,
\* or at a layer above the node's top layer, leaves the node unchanged, and any
\* other call appends the id after the entries already there.
C4_NoDuplicateNeighbors ==
    /\ \A l \in 1..Len(nodes[1].layer_connections) :
          IsDuplicateFree(nodes[1].layer_connections[l])
    /\ pc = "called" =>
          LET before == last_call.before
              after == nodes[1]
              layer == last_call.layer
          IN  IF layer > before.maximum_layer
              THEN after = before
              ELSE IF last_call.id \in Range(before.layer_connections[layer + 1])
              THEN after = before
              ELSE /\ after.maximum_layer = before.maximum_layer
                   /\ after.layer_connections =
                          [before.layer_connections EXCEPT
                              ![layer + 1] = Append(@, last_call.id)]

\* C4 witness: a call that repeated an id already in a list of two or more
\* entries, and so changed nothing.
C4_Witness ==
    /\ pc = "called"
    /\ last_call.layer <= last_call.before.maximum_layer
    /\ last_call.id \in Range(last_call.before.layer_connections[last_call.layer + 1])
    /\ Len(nodes[1].layer_connections[last_call.layer + 1]) >= 2

-----------------------------------------------------------------------------
(* Serializer.  The buffer is a sequence of bytes; an int is 4 bytes in    *)
(* host order (little-endian, two's complement).                           *)

\* the 4 bytes of the int v
IntBytes(v) ==
    <<v % 256, (v \div 256) % 256, (v \div 65536) % 256, (v \div 16777216) % 256>>

\* the byte of buf at offset off (0 outside the allocation, where the value
\* read is arbitrary)
ByteAt(buf, off) == IF off + 1 <= Len(buf) THEN buf[off + 1] ELSE 0

\* *((const int*)ptr) for ptr = buffer + off
ReadInt(buf, off) ==
    LET b3 == ByteAt(buf, off + 3)
    IN  ByteAt(buf, off) + 256 * ByteAt(buf, off + 1) + 65536 * ByteAt(buf, off + 2)
        + 16777216 * (IF b3 >= 128 THEN b3 - 256 ELSE b3)

RECURSIVE WriteInts(_, _)
WriteInts(ints, i) ==
    IF i > Len(ints) THEN <<>> ELSE IntBytes(ints[i]) \o WriteInts(ints, i + 1)

\* lines 681-684: the connection_counts array of a node
RECURSIVE WriteCounts(_, _)
WriteCounts(node, layer) ==
    IF layer > node.maximum_layer THEN <<>>
    ELSE IntBytes(connection_counts(node, layer)) \o WriteCounts(node, layer + 1)

\* WriteLayers without the repeated count of line 690
RECURSIVE WriteLayersNoCount(_, _)
WriteLayersNoCount(node, layer) ==
    IF layer > node.maximum_layer THEN <<>>
    ELSE WriteInts(node.layer_connections[layer + 1], 1)
         \o WriteLayersNoCount(node, layer + 1)

\* lines 687-698: per layer, the count again and then the connection ids
RECURSIVE WriteLayers(_, _)
WriteLayers(node, layer) ==
    IF layer > node.maximum_layer THEN <<>>
    ELSE IntBytes(connection_counts(node, layer))
         \o WriteInts(node.layer_connections[layer + 1], 1)
         \o WriteLayers(node, layer + 1)

\* lines 674-699: the records of nodes i.. of g
RECURSIVE WriteNodes(_, _)
WriteNodes(g, i) ==
    IF i >= Len(g) THEN <<>>
    ELSE IntBytes(g[i + 1].maximum_layer) \o WriteCounts(g[i + 1], 0)
         \o WriteLayers(g[i + 1], 0) \o WriteNodes(g, i + 1)

\* lines 652-658: the bytes counted for one node
RECURSIVE LayerBytes(_, _)
LayerBytes(node, layer) ==
    IF layer > node.maximum_layer THEN 0
    ELSE 4 + 4 * connection_counts(node, layer) + LayerBytes(node, layer + 1)

\* lines 649-659: total_size
RECURSIVE TotalSize(_, _)
TotalSize(g, i) ==
    IF i >= Len(g) THEN 0
    ELSE 4 + 4 * (g[i + 1].maximum_layer + 1) + LayerBytes(g[i + 1], 0)
         + TotalSize(g, i + 1)

\* lines 634-704: the buffer written and the size reported
serialize_hnsw_graph(g) ==
    [buffer |-> IntBytes(Len(g)) \o WriteNodes(g, 0),
     size |-> 4 + TotalSize(g, 0)]

-----------------------------------------------------------------------------
(* Deserializer.  Three things the C text leaves to the build and the host *)
(* are parameters of the model, and every call may meet either value:      *)
(*   wraps                 the signed product conn_count * 4 of line 800,  *)
(*                         when it overflows int, wraps (as compiled) or   *)
(*                         keeps its mathematical value;                   *)
(*   big_alloc_ok          an allocation of HugeCount or more elements     *)
(*                         succeeds or returns null;                       *)
(*   garbage_free_crashes  free() of a pointer that was never initialised  *)
(*                         aborts the process or returns.                  *)
(* A load through a null table pointer crashes the process.                *)

\* element counts from which an allocation may be refused by the host
HugeCount == 2 ^ 20

\* conn_count * (int)sizeof(int) in 32-bit two's complement
Mul4Wrap(c) ==
    LET r == c % (2 ^ 30)
    IN  IF r >= 2 ^ 29 THEN 4 * (r - 2 ^ 30) ELSE 4 * r

\* line 800: size < conn_count * (int)sizeof(int), for 0 <= remaining
SizeCheckFails(wraps, remaining, conn_count) ==
    IF wraps THEN remaining < Mul4Wrap(conn_count)
    ELSE conn_count > remaining \div 4

\* the memory of one node of the half-built graph: the tables of lines 764-766
\* are "null" (calloc'ed node, or refused) or "allocated"; counts holds the
\* counts read so far and arrays the neighbor arrays allocated and filled so far
MemNode(maximum_layer, tables, counts, arrays) ==
    [maximum_layer |-> maximum_layer, tables |-> tables,
     counts |-> counts, arrays |-> arrays]

\* lines 825-833 on the nodes read so far (the last possibly half-read) followed
\* by `unread` nodes still zeroed by calloc: which faults the walk meets
RECURSIVE FreeWalk(_, _, _, _, _)
FreeWalk(read, i, unread, garbage_free_crashes, uninit_free) ==
    IF i > Len(read)
    THEN \* a zeroed node: maximum_layer 0 and a null layer_connections table
         [null_deref |-> unread > 0, uninit_free |-> uninit_free,
          crashed |-> unread > 0]
    ELSE LET node == read[i]
         IN  IF node.maximum_layer < 0
             THEN FreeWalk(read, i + 1, unread, garbage_free_crashes, uninit_free)
             ELSE IF node.tables = "null"
             THEN [null_deref |-> TRUE, uninit_free |-> uninit_free, crashed |-> TRUE]
             ELSE IF Len(node.arrays) < node.maximum_layer + 1
             THEN IF garbage_free_crashes
                  THEN [null_deref |-> FALSE, uninit_free |-> TRUE, crashed |-> TRUE]
                  ELSE FreeWalk(read, i + 1, unread, garbage_free_crashes, TRUE)
             ELSE FreeWalk(read, i + 1, unread, garbage_free_crashes, uninit_free)

\* lines 822-837
free_hnsw_graph(read, unread, garbage_free_crashes) ==
    FreeWalk(read, 1, unread, garbage_free_crashes, FALSE)

\* a return of null before the node array exists (lines 716-741)
EarlyNull(reason) ==
    [status |-> "null", reason |-> reason, nodes |-> <<>>, oob |-> FALSE,
     released |-> FALSE, null_deref |-> FALSE, uninit_free |-> FALSE]

\* free_hnsw_graph(graph); return NULL;  cur is the half-read node, if any
Fail(c, s, cur, unread, reason) ==
    LET f == free_hnsw_graph(s.done \o cur, unread, c.garbage_free_crashes)
    IN  [status |-> IF f.crashed THEN "crash" ELSE "null", reason |-> reason,
         nodes |-> <<>>, oob |-> s.oob, released |-> TRUE,
         null_deref |-> f.null_deref, uninit_free |-> f.uninit_free]

\* ptr += n; size -= n after reading the n bytes at ptr
Advance(c, s, n) ==
    [s EXCEPT !.ptr = @ + n, !.size = @ - n,
              !.oob = @ \/ (n > 0 /\ s.ptr + n > c.decl)]

\* the node as the returned graph holds it
RestoredNode(node) ==
    [vector_id |-> 0, maximum_layer |-> node.maximum_layer,
     layer_connections |-> node.arrays,
     allocated_connection_sizes |-> node.counts]

RECURSIVE DesNodes(_, _, _)
RECURSIVE DesCounts(_, _, _, _, _)
RECURSIVE DesLayers(_, _, _, _, _)

\* lines 785-815: per layer the repeated count and the connection ids
DesLayers(c, s, i, node, layer) ==
    IF layer >= node.maximum_layer + 1
    THEN DesNodes(c, [s EXCEPT !.done = Append(@, node)], i + 1)
    ELSE IF s.size < 4
    THEN Fail(c, s, <<node>>, s.node_count - i - 1, "truncated")
    ELSE LET conn_count == ReadInt(c.buf, s.ptr)
             s1 == Advance(c, s, 4)
         IN  IF conn_count # node.counts[layer + 1]
             THEN Fail(c, s1, <<node>>, s.node_count - i - 1, "mismatch")
             ELSE IF SizeCheckFails(c.wraps, s1.size, conn_count)
             THEN Fail(c, s1, <<node>>, s.node_count - i - 1, "truncated")
             ELSE IF conn_count < 0
             THEN \* malloc of (size_t)conn_count * 4 bytes returns null
                  Fail(c, s1, <<node>>, s.node_count - i - 1, "alloc")
             ELSE IF conn_count > s1.size \div 4
             THEN \* the overflowed check let through more ids than remain
                  IF c.big_alloc_ok
                  THEN \* lines 810-813 read conn_count ints from ptr
                       [status |-> "crash", reason |-> "overread", nodes |-> <<>>,
                        oob |-> TRUE, released |-> FALSE,
                        null_deref |-> FALSE, uninit_free |-> FALSE]
                  ELSE Fail(c, s1, <<node>>, s.node_count - i - 1, "alloc")
             ELSE LET ids == [j \in 1..conn_count |->
                                 ReadInt(c.buf, s1.ptr + 4 * (j - 1))]
                  IN  DesLayers(c, Advance(c, s1, 4 * conn_count), i,
                                [node EXCEPT !.arrays = Append(@, ids)], layer + 1)

\* lines 773-782: the connection_counts array
DesCounts(c, s, i, node, layer) ==
    IF layer >= node.maximum_layer + 1
    THEN DesLayers(c, s, i, node, 0)
    ELSE IF s.size < 4
    THEN Fail(c, s, <<node>>, s.node_count - i - 1, "truncated")
    ELSE DesCounts(c, Advance(c, s, 4), i,
                   [node EXCEPT !.counts = Append(@, ReadInt(c.buf, s.ptr))],
                   layer + 1)

\* lines 744-816: node i and the nodes after it
DesNodes(c, s, i) ==
    IF i >= s.node_count
    THEN [status |-> "graph", reason |-> "none",
          nodes |-> [j \in 1..Len(s.done) |-> RestoredNode(s.done[j])],
          oob |-> s.oob, released |-> FALSE,
          null_deref |-> FALSE, uninit_free |-> FALSE]
    ELSE IF s.size < 4
    THEN Fail(c, s, <<>>, s.node_count - i, "truncated")
    ELSE LET maximum_layer == ReadInt(c.buf, s.ptr)
             s1 == Advance(c, s, 4)
         IN  IF maximum_layer < 0
             THEN Fail(c, s1, <<MemNode(maximum_layer, "null", <<>>, <<>>)>>,
                       s.node_count - i - 1, "negative_layer")
             ELSE IF maximum_layer + 1 >= HugeCount /\ ~c.big_alloc_ok
             THEN Fail(c, s1, <<MemNode(maximum_layer, "null", <<>>, <<>>)>>,
                       s.node_count - i - 1, "alloc")
             ELSE DesCounts(c, s1, i,
                            MemNode(maximum_layer, "allocated", <<>>, <<>>), 0)

\* lines 715-819
deserialize_hnsw_graph(buf, sz, wraps, big_alloc_ok, garbage_free_crashes) ==
    IF sz <= 0 THEN EarlyNull("empty")
    ELSE IF sz < 4 THEN EarlyNull("truncated")
    ELSE LET node_count == ReadInt(buf, 0)
             c == [buf |-> buf, decl |-> sz, wraps |-> wraps,
                   big_alloc_ok |-> big_alloc_ok,
                   garbage_free_crashes |-> garbage_free_crashes]
         IN  IF node_count < 0 \/ (node_count >= HugeCount /\ ~big_alloc_ok)
             THEN EarlyNull("alloc")
             ELSE DesNodes(c, [ptr |-> 4, size |-> sz - 4, oob |-> FALSE,
                               done |-> <<>>, node_count |-> node_count], 0)

-----------------------------------------------------------------------------
(* Specification SerSpec: serialize a graph, possibly damage the buffer or *)
(* the size, deserialize.                                                  *)

\* most nodes of a graph to serialize
SerMaxNodes == 2
\* largest top layer of such a node
SerMaxTop == 1
\* longest neighbor list of such a node
SerMaxConn == 2

\* longest serialized buffer, in bytes, that is damaged before deserializing
MaxTamperBytes == 44

\* the i-th id of a neighbor list: ids of several bytes, negative and small
SerIdAt(i) == IF i % 3 = 1 THEN 258 ELSE IF i % 3 = 2 THEN -1 ELSE i

SerList(n) == [i \in 1..n |-> SerIdAt(i)]

\* per-layer lists of a node: of every length up to SerMaxConn, or only the
\* empty and the longest one
SerShapes(lists) == UNION {[1..(t + 1) -> lists] : t \in 0..SerMaxTop}

SerNode(vector_id, shape) ==
    [create_hnsw_node(vector_id, Len(shape) - 1) EXCEPT !.layer_connections = shape]

\* the graphs of n nodes with the per-layer lists drawn from `lists`
SerGraphsOf(n, lists) ==
    {[i \in 1..n |-> SerNode(i - 1, f[i])] : f \in [1..n -> SerShapes(lists)]}

\* graphs to serialize: one node with lists of every length, and up to
\* SerMaxNodes nodes with empty and longest lists
SerGraphs ==
    SerGraphsOf(1, {SerList(n) : n \in 0..SerMaxConn})
    \cup UNION {SerGraphsOf(n, {SerList(0), SerList(SerMaxConn)}) :
                   n \in 0..SerMaxNodes}

\* values written over a word of the buffer
TamperValues == {-1, 0, 1, 2, 2 ^ 30}

\* buf with the int at offset off replaced by v
PatchInt(buf, off, v) ==
    [j \in 1..Len(buf) |->
        IF j - 1 >= off /\ j - 1 < off + 4 THEN IntBytes(v)[j - off] ELSE buf[j]]

\* offset of the repeated count of layer `layer` of node i in serialize(g)
RepeatedCountOffset(g, i, layer) ==
    4 + TotalSize(SubSeq(g, 1, i), 0) + 4 + 4 * (g[i + 1].maximum_layer + 1)
    + LayerBytes([g[i + 1] EXCEPT !.maximum_layer = layer - 1], 0)

\* offset of entry `layer` of the connection_counts array of node i
CountOffset(g, i, layer) == 4 + TotalSize(SubSeq(g, 1, i), 0) + 4 + 4 * layer

SerInit ==
    /\ pc = "graph"
    /\ nodes \in SerGraphs
    /\ vectors = <<>>
    /\ max_connections = 0
    /\ max_connections_layer_zero = 0
    /\ construction_search_width = 0
    /\ entry_point_node_id = 0
    /\ maximum_layer_in_graph = 0
    /\ current_node_id = 0
    /\ use_hnsw_optimization = FALSE
    /\ query = Vec(<<>>)
    /\ k = 0
    /\ result = <<>>
    /\ NoSerializer
    /\ NoCallRunning

SerUnchanged ==
    UNCHANGED <<vectors, max_connections, max_connections_layer_zero,
                construction_search_width, nodes, entry_point_node_id,
                maximum_layer_in_graph, current_node_id, use_hnsw_optimization,
                query, k, result, last_call, search, heap, cosine>>

\* lines 634-704
SerializeCall ==
    /\ pc = "graph"
    /\ LET out == serialize_hnsw_graph(nodes)
       IN  /\ buffer' = out.buffer
           /\ size' = out.size
    /\ pc' = "serialized"
    /\ UNCHANGED <<tampered, outcome>>
    /\ SerUnchanged

\* the repeated count of one layer is overwritten with a different value
FlipRepeatedCount ==
    /\ pc = "serialized"
    /\ tampered = "none"
    /\ Len(buffer) <= MaxTamperBytes
    /\ \E i \in NodeIds(nodes) :
          \E layer \in 0..nodes[i + 1].maximum_layer :
             \E v \in TamperValues :
                /\ v # connection_counts(nodes[i + 1], layer)
                /\ buffer' = PatchInt(buffer, RepeatedCountOffset(nodes, i, layer), v)
    /\ tampered' = "flip"
    /\ UNCHANGED <<pc, size, outcome>>
    /\ SerUnchanged

\* a count is forged: the connection_counts entry of one layer and its repeated
\* copy are both overwritten with the same wrong value
ForgeCount ==
    /\ pc = "serialized"
    /\ tampered = "none"
    /\ Len(buffer) <= MaxTamperBytes
    /\ \E i \in NodeIds(nodes) :
          \E layer \in 0..nodes[i + 1].maximum_layer :
             \E v \in TamperValues :
                /\ v # connection_counts(nodes[i + 1], layer)
                /\ buffer' = PatchInt(PatchInt(buffer, CountOffset(nodes, i, layer), v),
                                      RepeatedCountOffset(nodes, i, layer), v)
    /\ tampered' = "count"
    /\ UNCHANGED <<pc, size, outcome>>
    /\ SerUnchanged

\* any one word of the buffer is overwritten with a different value
OverwriteWord ==
    /\ pc = "serialized"
    /\ tampered = "none"
    /\ Len(buffer) <= MaxTamperBytes
    /\ \E w \in 0..(Len(buffer) \div 4 - 1) :
          \E v \in TamperValues :
             /\ v # ReadInt(buffer, 4 * w)
             /\ buffer' = PatchInt(buffer, 4 * w, v)
    /\ tampered' = "word"
    /\ UNCHANGED <<pc, size, outcome>>
    /\ SerUnchanged

\* the caller passes a size smaller than the serialized size
Truncate ==
    /\ pc = "serialized"
    /\ tampered = "none"
    /\ Len(buffer) <= MaxTamperBytes
    /\ \E sz \in 0..(size - 1) : size' = sz
    /\ tampered' = "truncate"
    /\ UNCHANGED <<pc, buffer, outcome>>
    /\ SerUnchanged

\* lines 715-819
DeserializeCall ==
    /\ pc = "serialized"
    /\ \E wraps \in BOOLEAN, big_alloc_ok \in BOOLEAN, garbage_free_crashes \in BOOLEAN :
          outcome' = deserialize_hnsw_graph(buffer, size, wraps, big_alloc_ok,
                                            garbage_free_crashes)
    /\ pc' = "deserialized"
    /\ UNCHANGED <<buffer, size, tampered>>
    /\ SerUnchanged

SerNext ==
    \/ SerializeCall
    \/ FlipRepeatedCount
    \/ ForgeCount
    \/ OverwriteWord
    \/ Truncate
    \/ DeserializeCall

SerSpec == SerInit /\ [][SerNext]_vars

\* C6: deserializing the buffer and size that serialize_hnsw_graph produced
\* succeeds and restores the node count, every node's top layer and every
\* per-layer neighbor sequence, ids and order.
C6_RoundTrip ==
    (pc = "deserialized" /\ tampered = "none") =>
        /\ outcome.status = "graph"
        /\ Len(outcome.nodes) = Len(nodes)
        /\ \A i \in 1..Len(nodes) :
              /\ outcome.nodes[i].maximum_layer = nodes[i].maximum_layer
              /\ outcome.nodes[i].layer_connections = nodes[i].layer_connections

\* C6 witness: a round trip of a two-node graph with a node on layer 1 and a
\* neighbor list of two ids.
C6_Witness ==
    /\ pc = "deserialized"
    /\ tampered = "none"
    /\ Len(nodes) = 2
    /\ \E i \in 1..2 :
          /\ nodes[i].maximum_layer = 1
          /\ Len(nodes[i].layer_connections[2]) = 2
          /\ outcome.nodes[i].layer_connections[2] = <<258, -1>>

\* C7: when the repeated count of some node and layer was changed to a value
\* different from the connection_count entry, deserialize_hnsw_graph returns
\* null.
C7_FlippedCountRejected ==
    (pc = "deserialized" /\ tampered = "flip") => outcome.status = "null"

\* C8: deserialize_hnsw_graph never reads a byte at an offset >= size, and it
\* returns null whenever a field would extend past the buffer end or a node's
\* top layer is negative, whatever the count fields hold.
C8_BoundsChecked ==
    pc = "deserialized" =>
        /\ ~outcome.oob
        /\ outcome.reason \in {"truncated", "negative_layer"} =>
               outcome.status = "null"

\* C9: on every failure path taken after the node array was allocated the
\* half-built graph is released and null is returned, and the release neither
\* dereferences the null layer table of an unread node nor frees an
\* uninitialised neighbor-array pointer.
C9_CleanRelease ==
    (pc = "deserialized" /\ outcome.released) =>
        /\ outcome.status = "null"
        /\ ~outcome.null_deref
        /\ ~outcome.uninit_free

-----------------------------------------------------------------------------
(* Specification BruteSpec: knn_search on an index without a graph.        *)

\* most vectors in a store
BruteMaxN == 3
\* largest k tried on such a store
BruteMaxK == 3

\* stores of one dimension each: all vectors of an index share their length
BrutePoints2 == {Vec(<<0, 0>>), Vec(<<10, 0>>), Vec(<<0, 10>>)}

BrutePoints1 == {Vec(<<0>>), Vec(<<5>>)}

BruteStores ==
    UNION {[1..n -> BrutePoints2] \cup [1..n -> BrutePoints1] : n \in 1..BruteMaxN}

BruteQueries == {Vec(<<1, 1>>), Vec(<<10, 0>>), Vec(<<2>>)}

BruteInit ==
    /\ pc = "brute"
    /\ vectors \in BruteStores
    /\ max_connections = 0
    /\ max_connections_layer_zero = 0
    /\ construction_search_width = 0
    /\ nodes = <<>>
    /\ entry_point_node_id = 0
    /\ maximum_layer_in_graph = 0
    /\ current_node_id = 0
    /\ use_hnsw_optimization = FALSE
    /\ query = Vec(<<>>)
    /\ k = 0
    /\ result = <<>>
    /\ NoSerializer
    /\ NoCallRunning

\* lines 484-524 with index->hnsw_graph null
BruteSearchCall ==
    /\ pc \in {"brute", "brute_searched"}
    /\ \E q \in BruteQueries, kk \in 1..BruteMaxK :
          /\ query' = q
          /\ k' = kk
          /\ result' = knn_search(q, kk)
    /\ pc' = "brute_searched"
    /\ UNCHANGED <<vectors, max_connections, max_connections_layer_zero,
                   construction_search_width, nodes, entry_point_node_id,
                   maximum_layer_in_graph, current_node_id, use_hnsw_optimization,
                   last_call, buffer, size, tampered, outcome,
                   search, heap, cosine>>

BruteNext == BruteSearchCall

BruteSpec == BruteInit /\ [][BruteNext]_vars

\* id u comes before id v: closer to q, or as close and of lower id
Before(q, u, v) ==
    LET du == calculate_euclidean_distance(q, vectors[u + 1])
        dv == calculate_euclidean_distance(q, vectors[v + 1])
    IN  du < dv \/ (du = dv /\ u < v)

\* the id at 1-based position i of all ids in that order
IdAtRank(q, i) ==
    CHOOSE v \in NodeIds(vectors) :
        Cardinality({u \in NodeIds(vectors) : Before(q, u, v)}) = i - 1

\* the first kk ids in that order, then -1 in the positions past the store
NearestFirst(q, kk) ==
    [i \in 1..kk |-> IF i <= Len(vectors) THEN IdAtRank(q, i) ELSE -1]

\* C10 as stated: brute-force knn_search with k >= 1 returns exactly k entries,
\* the first k of all N ids by ascending distance to the query, ties by
\* ascending id, then -1 in the remaining positions when N < k.
C10_BruteForceOrder ==
    pc = "brute_searched" => result = NearestFirst(query, k)

\* C10 amended: the same, for a query of the dimension of the stored vectors.
C10_BruteForceOrderSameLen ==
    (pc = "brute_searched" /\ \A i \in 1..Len(vectors) : vectors[i].len = query.len) =>
        result = NearestFirst(query, k)

\* C10 witness: two stored vectors equally far from a query of their dimension
\* and k = 3: the lower id first, then the other, then the -1 sentinel.
C10_Witness ==
    /\ pc = "brute_searched"
    /\ Len(vectors) = 2
    /\ k = 3
    /\ vectors[1].len = query.len
    /\ calculate_euclidean_distance(query, vectors[1])
           = calculate_euclidean_distance(query, vectors[2])
    /\ result = <<0, 1, -1>>

\* lines 505-506: the elements of data[] read by one brute-force scan of the store
RECURSIVE BruteComponentReads(_, _)
BruteComponentReads(q, n) ==
    IF n = 0 THEN 0
    ELSE BruteComponentReads(q, n - 1) + ComponentReads(q, vectors[n])

\* C11: when the query's dimension differs from that of every stored vector,
\* the kernel yields FLT_MAX for every comparison, brute-force knn_search
\* returns k entries that are all -1, and no vector component is read.
C11_DimensionMismatchSentinels ==
    (pc = "brute_searched" /\ \A i \in 1..Len(vectors) : vectors[i].len # query.len) =>
        /\ \A i \in 1..Len(vectors) :
              calculate_euclidean_distance(query, vectors[i]) = FLT_MAX
        /\ result = [i \in 1..k |-> -1]
        /\ BruteComponentReads(query, Len(vectors)) = 0

\* C11 witness: a 1-D query on a store of three 2-D vectors with k = 2 has
\* returned two sentinels.
C11_Witness ==
    /\ pc = "brute_searched"
    /\ Len(vectors) = 3
    /\ query.len = 1
    /\ \A i \in 1..Len(vectors) : vectors[i].len = 2
    /\ k = 2
    /\ result = <<-1, -1>>

-----------------------------------------------------------------------------
(* Single-precision arithmetic of brute_force_knn_search.  A float is       *)
(* neg, m, e with value (-1)^neg * m * 2^e, where m = 0 or                  *)
(* 2^23 <= m < 2^24; results are rounded to nearest, ties to even, as the   *)
(* float operations of line 565 are.  Sums of products of the small whole   *)
(* components used here are exact in a float and are kept as integers.      *)

\* 2^23: the smallest 24-bit significand
Hidden == 8388608
\* 2^12: half a significand, used to multiply two of them in 32 bits
Limb == 4096

FZero == [neg |-> FALSE, m |-> 0, e |-> 0]

RECURSIVE Normalize(_, _, _)
Normalize(neg, m, e) ==
    IF m = 0 THEN FZero
    ELSE IF m < Hidden THEN Normalize(neg, 2 * m, e - 1)
    ELSE [neg |-> neg, m |-> m, e |-> e]

\* (float) of an integer below 2^24 in magnitude
FloatOfInt(n) == IF n < 0 THEN Normalize(TRUE, -n, 0) ELSE Normalize(FALSE, n, 0)

\* m * 2^e with a 24-bit m, after adding one unit in the last place when up
RoundUp(neg, m, e, up) ==
    LET r == IF up THEN m + 1 ELSE m
    IN  IF r = 2 * Hidden THEN [neg |-> neg, m |-> Hidden, e |-> e + 1]
        ELSE [neg |-> neg, m |-> r, e |-> e]

ISqrt(n) == CHOOSE r \in 0..n : r * r <= n /\ n < (r + 1) * (r + 1)

RECURSIVE BitLength(_)
BitLength(n) == IF n = 0 THEN 0 ELSE 1 + BitLength(n \div 2)

\* digit-by-digit square root: `steps` more binary digits of the root
RECURSIVE SqrtDigits(_, _, _)
SqrtDigits(root, rem, steps) ==
    IF steps = 0 THEN root
    ELSE IF 4 * rem >= 4 * root + 1
    THEN SqrtDigits(2 * root + 1, 4 * rem - (4 * root + 1), steps - 1)
    ELSE SqrtDigits(2 * root, 4 * rem, steps - 1)

\* sqrtf of a whole number n >= 0: 25 digits of the root, rounded to 24
sqrtf(n) ==
    IF n = 0 THEN FZero
    ELSE LET r0 == ISqrt(n)
             steps == 25 - BitLength(r0)
             root == SqrtDigits(r0, n - r0 * r0, steps)
         IN  RoundUp(FALSE, root \div 2, 1 - steps, root % 2 = 1)

\* a * b in single precision
FMul(a, b) ==
    IF a.m = 0 \/ b.m = 0 THEN FZero
    ELSE LET h1 == a.m \div Limb
             l1 == a.m % Limb
             h2 == b.m \div Limb
             l2 == b.m % Limb
             mid == h1 * l2 + l1 * h2
             low == (mid % Limb) * Limb + l1 * l2
             lo == low % (2 * Hidden)
             hi == h1 * h2 + (mid \div Limb) + (low \div (2 * Hidden))
             neg == a.neg # b.neg
         IN  IF hi >= Hidden
             THEN RoundUp(neg, hi, a.e + b.e + 24,
                          lo > Hidden \/ (lo = Hidden /\ hi % 2 = 1))
             ELSE LET m == 2 * hi + (lo \div Hidden)
                      rest == lo % Hidden
                  IN  RoundUp(neg, m, a.e + b.e + 23,
                              2 * rest > Hidden \/ (2 * rest = Hidden /\ m % 2 = 1))

\* long division: `steps` more binary digits of rem / d
RECURSIVE DivDigits(_, _, _, _)
DivDigits(q, rem, d, steps) ==
    IF steps = 0 THEN [q |-> q, rem |-> rem]
    ELSE IF 2 * rem >= d
    THEN DivDigits(2 * q + 1, 2 * rem - d, d, steps - 1)
    ELSE DivDigits(2 * q, 2 * rem, d, steps - 1)

\* a / b in single precision, b # 0
FDiv(a, b) ==
    IF a.m = 0 THEN FZero
    ELSE LET neg == a.neg # b.neg
             first == a.m >= b.m
             steps == IF first THEN 23 ELSE 24
             r == DivDigits(IF first THEN 1 ELSE 0,
                            IF first THEN a.m - b.m ELSE a.m, b.m, steps)
         IN  RoundUp(neg, r.q, a.e - b.e - steps,
                     2 * r.rem > b.m \/ (2 * r.rem = b.m /\ r.q % 2 = 1))

\* a < b on floats
FLess(a, b) ==
    LET MagLess(x, y) ==
            IF x.m = 0 THEN y.m # 0
            ELSE y.m # 0 /\ (x.e < y.e \/ (x.e = y.e /\ x.m < y.m))
    IN  IF a.m = 0 /\ b.m = 0 THEN FALSE
        ELSE IF a.neg /\ a.m # 0
        THEN IF b.neg /\ b.m # 0 THEN MagLess(b, a) ELSE TRUE
        ELSE IF b.neg /\ b.m # 0 THEN FALSE ELSE MagLess(a, b)

-----------------------------------------------------------------------------
(* Cosine threshold search (brute_force_knn_search) and specification       *)
(* CosineSpec.  Here a vector's components are the whole numbers themselves *)
(* (not tenths), since single-precision rounding depends on their scale.    *)

\* sum of a[j] * b[j] over the first n components
RECURSIVE InnerProduct(_, _, _)
InnerProduct(a, b, n) ==
    IF n = 0 THEN 0 ELSE InnerProduct(a, b, n - 1) + a[n] * b[n]

\* lines 550-559: dot product and squared norms over the stored vector's length
Accumulate(v, q) ==
    [dot_product |-> InnerProduct(v.data, q.data, v.len),
     norm_a |-> InnerProduct(v.data, v.data, v.len),
     norm_b |-> InnerProduct(q.data, q.data, v.len)]

\* line 565, for non-zero norms
Similarity(v, q) ==
    LET s == Accumulate(v, q)
    IN  FDiv(FloatOfInt(s.dot_product), FMul(sqrtf(s.norm_a), sqrtf(s.norm_b)))

\* the float of a threshold num / 2^shift
ThresholdFloat(t) == Normalize(t.num < 0, IF t.num < 0 THEN -t.num ELSE t.num, -t.shift)

\* lines 549-571: the matches, in store order, as (id, similarity) pairs
RECURSIVE CollectMatches(_, _, _, _, _, _)
CollectMatches(vs, i, len, q, threshold, matches) ==
    IF i >= len THEN matches
    ELSE LET s == Accumulate(vs[i + 1], q)
         IN  IF s.norm_a = 0 \/ s.norm_b = 0
             THEN CollectMatches(vs, i + 1, len, q, threshold, matches)
             ELSE IF ~FLess(Similarity(vs[i + 1], q), ThresholdFloat(threshold))
             THEN CollectMatches(vs, i + 1, len, q, threshold,
                      Append(matches, [id |-> i, similarity |-> Similarity(vs[i + 1], q)]))
             ELSE CollectMatches(vs, i + 1, len, q, threshold, matches)

\* lines 575-585: one pass of the inner loop, j running up to limit - 1
RECURSIVE BubblePass(_, _, _)
BubblePass(matches, j, limit) ==
    IF j >= limit THEN matches
    ELSE IF FLess(matches[j + 1].similarity, matches[j + 2].similarity)
    THEN BubblePass([matches EXCEPT ![j + 1] = matches[j + 2], ![j + 2] = matches[j + 1]],
                    j + 1, limit)
    ELSE BubblePass(matches, j + 1, limit)

\* lines 574-586: the bubble sort by descending similarity
RECURSIVE BubbleSort(_, _)
BubbleSort(matches, i) ==
    IF i >= Len(matches) - 1 THEN matches
    ELSE BubbleSort(BubblePass(matches, 0, Len(matches) - 1 - i), i + 1)

\* lines 527-603.  A null return is null = TRUE.  realloc_zero_frees is what
\* realloc(neighbors, 0) does when nothing matched: it may free the block and
\* return null, upon which line 597 hands the freed block back to the caller.
brute_force_knn_search(vs, len, q, query_null, kk, threshold, realloc_zero_frees) ==
    IF len <= 0 \/ query_null \/ kk <= 0
    THEN [null |-> TRUE, neighbors |-> <<>>, out_count |-> 0, dangling |-> FALSE]
    ELSE LET sorted == BubbleSort(CollectMatches(vs, 0, len, q, threshold, <<>>), 0)
             match_count == Min2(Len(sorted), kk)
         IN  [null |-> FALSE,
              neighbors |-> [i \in 1..match_count |-> sorted[i].id],
              out_count |-> match_count,
              dangling |-> match_count = 0 /\ realloc_zero_frees]

\* most vectors in a store searched by cosine similarity
CosineMaxN == 3
\* largest k of a cosine search
CosineMaxK == 2

CosinePoints ==
    {Vec(<<1, 0>>), Vec(<<0, 1>>), Vec(<<1, 1>>), Vec(<<3, 3>>), Vec(<<1, 6>>),
     Vec(<<0, 0>>)}

CosineStores == UNION {[1..n -> CosinePoints] : n \in 1..CosineMaxN}

CosineQueries == {Vec(<<1, 0>>), Vec(<<1, 6>>), Vec(<<0, 0>>)}

\* the thresholds 0.5 and 1.0
Thresholds == {[num |-> 1, shift |-> 1], [num |-> 1, shift |-> 0]}

CosineInit ==
    /\ pc = "cosine"
    /\ vectors \in CosineStores
    /\ max_connections = 0
    /\ max_connections_layer_zero = 0
    /\ construction_search_width = 0
    /\ nodes = <<>>
    /\ entry_point_node_id = 0
    /\ maximum_layer_in_graph = 0
    /\ current_node_id = 0
    /\ use_hnsw_optimization = FALSE
    /\ query = Vec(<<>>)
    /\ k = 0
    /\ result = <<>>
    /\ NoSerializer
    /\ NoCallRunning

\* lines 527-603: one call; len is the store's length or 0, the query may be
\* null, k may be 0
BruteForceCosineCall ==
    /\ pc = "cosine"
    /\ \E q \in CosineQueries, query_null \in BOOLEAN, kk \in 0..CosineMaxK,
          t \in Thresholds, len \in {0, Len(vectors)}, realloc_zero_frees \in BOOLEAN :
          LET r == brute_force_knn_search(vectors, len, q, query_null, kk, t,
                                          realloc_zero_frees)
          IN  /\ query' = q
              /\ k' = kk
              /\ result' = r.neighbors
              /\ cosine' = [status |-> IF r.null THEN "null" ELSE "returned",
                            len |-> len, query_null |-> query_null,
                            similarity_threshold |-> t,
                            out_count |-> r.out_count, dangling |-> r.dangling]
    /\ pc' = "cosine_searched"
    /\ UNCHANGED <<vectors, max_connections, max_connections_layer_zero,
                   construction_search_width, nodes, entry_point_node_id,
                   maximum_layer_in_graph, current_node_id, use_hnsw_optimization,
                   last_call, buffer, size, tampered, outcome, search, heap>>

CosineNext == BruteForceCosineCall

CosineSpec == CosineInit /\ [][CosineNext]_vars

\* the call had a store, a query and k >= 1
CosineValidCall ==
    /\ pc = "cosine_searched"
    /\ cosine.len = Len(vectors)
    /\ ~cosine.query_null
    /\ k >= 1

\* the cosine of stored vector u to q is at least t = num / 2^shift > 0, in
\* exact arithmetic: dot > 0 and dot^2 * 4^shift >= num^2 * |u|^2 * |q|^2
ExactAtLeast(u, q, t) ==
    LET s == Accumulate(vectors[u + 1], q)
    IN  /\ s.norm_a # 0
        /\ s.norm_b # 0
        /\ s.dot_product > 0
        /\ s.dot_product * s.dot_product * (4 ^ t.shift)
               >= t.num * t.num * s.norm_a * s.norm_b

\* u comes before v: the exact cosine of u is larger, or equal with u < v
\* (both dot products positive)
ExactBefore(u, v, q) ==
    LET su == Accumulate(vectors[u + 1], q)
        sv == Accumulate(vectors[v + 1], q)
        lu == su.dot_product * su.dot_product * sv.norm_a
        lv == sv.dot_product * sv.dot_product * su.norm_a
    IN  lu > lv \/ (lu = lv /\ u < v)

ExactMatches(q, t) == {u \in NodeIds(vectors) : ExactAtLeast(u, q, t)}

\* the exact matches in that order, cut to kk
ExactRanking(q, t, kk) ==
    LET M == ExactMatches(q, t)
    IN  [i \in 1..Min2(kk, Cardinality(M)) |->
            CHOOSE v \in M : Cardinality({u \in M : ExactBefore(u, v, q)}) = i - 1]

\* C12: with valid arguments brute_force_knn_search returns exactly the ids of
\* the non-zero stored vectors whose cosine similarity to the query is at
\* least the threshold, by descending similarity and ascending id among equal
\* similarities, cut to k, and out_count is the number of ids returned.
C12_CosineThresholdRanking ==
    CosineValidCall =>
        /\ cosine.status = "returned"
        /\ result = ExactRanking(query, cosine.similarity_threshold, k)
        /\ cosine.out_count = Len(result)

-----------------------------------------------------------------------------
(* Specification HeapSpec: any sequence of insert_candidate calls and of    *)
(* extract_top_candidate calls on a non-empty queue.                        *)

\* largest capacity of the queue
HeapMaxCapacity == 3
\* most insert_candidate calls in a run
HeapMaxInserts == 4

HeapDistances == {10, 20, 30}

HeapIds == {0, 1}

\* how often distance d was inserted: nothing yet
NoneInserted == [d \in HeapDistances |-> 0]

HeapInit ==
    /\ pc = "heap"
    /\ \E capacity \in 1..HeapMaxCapacity, is_max_heap \in BOOLEAN :
          heap = [status |-> "created",
                  queue |-> create_priority_queue(capacity, is_max_heap),
                  before |-> create_priority_queue(capacity, is_max_heap),
                  inserted |-> NoneInserted, inserts |-> 0, extracts |-> 0,
                  top |-> Cand(-1, 0)]
    /\ vectors = <<>>
    /\ max_connections = 0
    /\ max_connections_layer_zero = 0
    /\ construction_search_width = 0
    /\ nodes = <<>>
    /\ entry_point_node_id = 0
    /\ maximum_layer_in_graph = 0
    /\ current_node_id = 0
    /\ use_hnsw_optimization = FALSE
    /\ query = Vec(<<>>)
    /\ k = 0
    /\ result = <<>>
    /\ NoSerializer
    /\ search = [status |-> "none"]
    /\ cosine = [status |-> "none"]

HeapUnchanged ==
    UNCHANGED <<pc, vectors, max_connections, max_connections_layer_zero,
                construction_search_width, nodes, entry_point_node_id,
                maximum_layer_in_graph, current_node_id, use_hnsw_optimization,
                query, k, result, last_call, buffer, size, tampered, outcome,
                search, cosine>>

\* lines 106-126: one insert_candidate call
InsertCandidateCall ==
    /\ pc = "heap"
    /\ heap.inserts < HeapMaxInserts
    /\ \E node_id \in HeapIds, distance \in HeapDistances :
          heap' = [heap EXCEPT
                      !.status = "inserted",
                      !.queue = insert_candidate(heap.queue, node_id, distance),
                      !.before = heap.queue,
                      !.inserted[distance] = @ + 1,
                      !.inserts = @ + 1]
    /\ HeapUnchanged

\* lines 128-136: one extract_top_candidate call on a non-empty queue
ExtractTopCandidateCall ==
    /\ pc = "heap"
    /\ Len(heap.queue.candidates) > 0
    /\ LET ex == extract_top_candidate(heap.queue)
       IN  heap' = [heap EXCEPT
                       !.status = "extracted",
                       !.queue = ex.queue,
                       !.before = heap.queue,
                       !.extracts = @ + 1,
                       !.top = ex.top]
    /\ HeapUnchanged

HeapNext == InsertCandidateCall \/ ExtractTopCandidateCall

HeapSpec == HeapInit /\ [][HeapNext]_vars

\* how many elements of the candidates array c equal x
CountOf(c, x) == Cardinality({i \in 1..Len(c) : c[i] = x})

\* how many elements of c have distance d
CountAt(c, d) == Cardinality({i \in 1..Len(c) : c[i].distance = d})

\* no element is better than its parent (C index i, parent (i - 1) / 2)
HeapOrdered(queue) ==
    \A i \in 1..(Len(queue.candidates) - 1) :
        LET child == queue.candidates[i + 1].distance
            parent == queue.candidates[CDiv(i - 1, 2) + 1].distance
        IN  IF queue.is_max_heap THEN child <= parent ELSE child >= parent

\* C16: for a queue of capacity >= 1, after any sequence of inserts and of
\* extracts on a non-empty queue, 0 <= size <= capacity and no element is
\* better than its parent; an extract returns an element of minimum (Min mode)
\* or maximum (Max mode) distance among the contents and removes exactly it.
C16_HeapDiscipline ==
    pc = "heap" =>
        /\ Len(heap.queue.candidates) <= heap.queue.capacity
        /\ HeapOrdered(heap.queue)
        /\ heap.status = "extracted" =>
              /\ \E i \in 1..Len(heap.before.candidates) :
                    heap.before.candidates[i] = heap.top
              /\ \A i \in 1..Len(heap.before.candidates) :
                    IF heap.queue.is_max_heap
                    THEN heap.before.candidates[i].distance <= heap.top.distance
                    ELSE heap.before.candidates[i].distance >= heap.top.distance
              /\ Len(heap.queue.candidates) = Len(heap.before.candidates) - 1
              /\ \A i \in 1..Len(heap.before.candidates) :
                    LET x == heap.before.candidates[i]
                    IN  CountOf(heap.queue.candidates, x)
                            = CountOf(heap.before.candidates, x)
                                  - (IF x = heap.top THEN 1 ELSE 0)

\* C16 witness: the first extract, from a queue of capacity 3 that was full
\* when the fourth insert came, holding more than one distance.
C16_Witness ==
    /\ pc = "heap"
    /\ heap.status = "extracted"
    /\ heap.inserts = 4
    /\ heap.extracts = 1
    /\ heap.queue.capacity = 3
    /\ Len(heap.before.candidates) = 3
    /\ \E i, j \in 1..3 :
          heap.before.candidates[i].distance # heap.before.candidates[j].distance

\* how many copies of distance d are among the n smallest inserted distances
CountAmongSmallest(inserted, n, d) ==
    LET below == IF d = 10 THEN 0
                 ELSE IF d = 20 THEN inserted[10]
                 ELSE inserted[10] + inserted[20]
        room == IF n > below THEN n - below ELSE 0
    IN  Min2(inserted[d], room)

\* C17: after any sequence of insert_candidate calls and no extract, a Max-mode
\* queue of capacity K holds, as a multiset of distances, the min(K, number
\* inserted) smallest distances inserted so far; candidates of equal node_id
\* are all kept.
C17_RetainsKBest ==
    (pc = "heap" /\ heap.queue.is_max_heap /\ heap.extracts = 0) =>
        /\ Len(heap.queue.candidates) = Min2(heap.queue.capacity, heap.inserts)
        /\ \A d \in HeapDistances :
              CountAt(heap.queue.candidates, d)
                  = CountAmongSmallest(heap.inserted, heap.queue.capacity, d)

\* C17 witness: a Max-mode queue of capacity 2 after four inserts and no
\* extract, one of them of distance 30 that is no longer held, holding two
\* candidates of the same node_id.
C17_Witness ==
    /\ pc = "heap"
    /\ heap.queue.is_max_heap
    /\ heap.extracts = 0
    /\ heap.inserts = 4
    /\ heap.queue.capacity = 2
    /\ heap.inserted[30] >= 1
    /\ CountAt(heap.queue.candidates, 30) = 0
    /\ heap.queue.candidates[1].node_id = heap.queue.candidates[2].node_id

-----------------------------------------------------------------------------
(* Specification LoopSpec: the loops of the program taken one iteration at  *)
(* a time: search_layer (lines 375-407), the beam search of the builder     *)
(* (lines 287-311) and the layer sampler (lines 34-37), on graphs with      *)
(* edges, cycles included, as deserialize_hnsw_graph can hand them to a     *)
(* search.  LoopFairSpec adds that a running routine takes its next step.   *)

\* largest search width of a stepped search
LoopMaxEf == 2

\* three points on a line, in tenths
LoopStore == <<Vec(<<0, 0>>), Vec(<<10, 0>>), Vec(<<30, 0>>)>>

\* a query beside node 0, one beyond node 2, and one midway between 0 and 1
LoopQueries == {Vec(<<1, 0>>), Vec(<<40, 0>>), Vec(<<5, 0>>)}

\* the duplicate-free lists over the two other ids
NeighborLists(i) ==
    LET a == (i + 1) % 3
        b == (i + 2) % 3
    IN  {<<>>, <<a>>, <<b>>, <<a, b>>, <<b, a>>}

\* top layers of the three nodes
LoopTops == {<<0, 0, 0>>, <<1, 0, 1>>, <<1, 1, 1>>}

\* node i with top layer top and the same neighbor list on each of its layers
LoopNode(i, top, conns) ==
    [create_hnsw_node(i, top) EXCEPT
        !.layer_connections = [l \in 1..(top + 1) |-> conns]]

LoopGraphs ==
    {[i \in 1..3 |-> LoopNode(i - 1, tops[i], lists[i])] :
        tops \in LoopTops,
        lists \in {f \in [1..3 -> UNION {NeighborLists(j) : j \in 0..2}] :
                      \A i \in 1..3 : f[i] \in NeighborLists(i - 1)}}

\* level factors 0.3, 1.0 and 1.5, in tenths
LevelFactors == {3, 10, 15}

\* values of (float)rand() / RAND_MAX, in tenths: 0.0, 0.5 and 1.0
RandDraws == {0, 5, 10}

LoopInit ==
    /\ pc = "loops"
    /\ vectors = LoopStore
    /\ nodes \in LoopGraphs
    /\ max_connections = 0
    /\ max_connections_layer_zero = 0
    /\ construction_search_width = 0
    /\ entry_point_node_id = 0
    /\ maximum_layer_in_graph = 0
    /\ current_node_id = 0
    /\ use_hnsw_optimization = FALSE
    /\ query = Vec(<<>>)
    /\ k = 0
    /\ result = <<>>
    /\ NoSerializer
    /\ search = [status |-> "idle"]
    /\ heap = [status |-> "none"]
    /\ cosine = [status |-> "none"]

LoopUnchanged ==
    UNCHANGED <<pc, vectors, max_connections, max_connections_layer_zero,
                construction_search_width, nodes, entry_point_node_id,
                maximum_layer_in_graph, current_node_id, use_hnsw_optimization,
                k, last_call, buffer, size, tampered, outcome, heap, cosine>>

\* lines 364-373: search_layer is entered and both queues are seeded
SearchLayerCall ==
    /\ search.status = "idle"
    /\ \E q \in LoopQueries, entry_point \in NodeIds(nodes), layer \in 0..1,
          search_width \in 1..LoopMaxEf :
          LET entry_distance ==
                  calculate_euclidean_distance(q, vectors[entry_point + 1])
          IN  /\ query' = q
              /\ search' =
                     [status |-> "loop", routine |-> "search_layer",
                      candidates |->
                          insert_candidate(create_priority_queue(search_width, FALSE),
                                           entry_point, entry_distance),
                      visited |->
                          insert_candidate(create_priority_queue(search_width * 2, TRUE),
                                           entry_point, entry_distance),
                      visited_flags |-> {entry_point},
                      layer |-> layer, search_width |-> search_width,
                      entry_point |-> entry_point, pops |-> 0]
    /\ UNCHANGED result
    /\ LoopUnchanged

\* lines 375-407: one iteration of the search loop: pop the closest candidate,
\* then leave the loop (line 380) or offer its neighbors to both queues
SearchLoopStep ==
    /\ search.status = "loop"
    /\ search.routine = "search_layer"
    /\ Len(search.candidates.candidates) > 0
    /\ LET ex == extract_top_candidate(search.candidates)
           current == ex.top
           current_node == nodes[current.node_id + 1]
       IN  IF Len(search.visited.candidates) >= search.search_width
              /\ current.distance > search.visited.candidates[1].distance
           THEN search' = [search EXCEPT !.status = "drain", !.candidates = ex.queue,
                                         !.pops = @ + 1]
           ELSE IF search.layer <= current_node.maximum_layer
           THEN LET after ==
                        SearchExplore(current_node.layer_connections[search.layer + 1],
                                      1, query, ex.queue, search.visited,
                                      search.visited_flags, search.search_width)
                IN  search' = [search EXCEPT !.candidates = after.candidates,
                                             !.visited = after.visited,
                                             !.visited_flags = after.visited_flags,
                                             !.pops = @ + 1]
           ELSE search' = [search EXCEPT !.candidates = ex.queue, !.pops = @ + 1]
    /\ UNCHANGED <<query, result>>
    /\ LoopUnchanged

\* line 375: the loop ends when the frontier is empty
SearchLoopExit ==
    /\ search.status = "loop"
    /\ search.routine = "search_layer"
    /\ Len(search.candidates.candidates) = 0
    /\ search' = [search EXCEPT !.status = "drain"]
    /\ UNCHANGED <<query, result>>
    /\ LoopUnchanged

\* lines 410-423: the results are drained and returned
SearchLayerReturn ==
    /\ search.status = "drain"
    /\ result' = DrainVisited(search.visited, <<>>)
    /\ search' = [search EXCEPT !.status = "returned"]
    /\ UNCHANGED query
    /\ LoopUnchanged

\* lines 279-285: the builder seeds its beam search for the vector of node_id
BuildBeamCall ==
    /\ search.status = "idle"
    /\ \E node_id \in NodeIds(nodes), current_search_node \in NodeIds(nodes),
          connection_layer \in 0..1, width \in 1..LoopMaxEf :
          LET current_vector == vectors[node_id + 1]
              entry_distance ==
                  calculate_euclidean_distance(current_vector,
                                               vectors[current_search_node + 1])
          IN  /\ query' = current_vector
              /\ search' =
                     [status |-> "loop", routine |-> "build_hnsw_graph",
                      candidates |->
                          insert_candidate(create_priority_queue(width, FALSE),
                                           current_search_node, entry_distance),
                      visited |->
                          insert_candidate(create_priority_queue(width * 2, TRUE),
                                           current_search_node, entry_distance),
                      layer |-> connection_layer, search_width |-> width,
                      entry_point |-> current_search_node, pops |-> 0]
    /\ UNCHANGED result
    /\ LoopUnchanged

\* lines 287-311: one iteration of the builder's beam search loop
BuildBeamStep ==
    /\ search.status = "loop"
    /\ search.routine = "build_hnsw_graph"
    /\ Len(search.candidates.candidates) > 0
    /\ LET ex == extract_top_candidate(search.candidates)
           candidate_node == nodes[ex.top.node_id + 1]
       IN  IF search.layer <= candidate_node.maximum_layer
           THEN LET after ==
                        BuildExplore(candidate_node.layer_connections[search.layer + 1],
                                     1, query, ex.queue, search.visited,
                                     search.search_width)
                IN  search' = [search EXCEPT !.candidates = after.layer_candidates,
                                             !.visited = after.visited_nodes,
                                             !.pops = @ + 1]
           ELSE search' = [search EXCEPT !.candidates = ex.queue, !.pops = @ + 1]
    /\ UNCHANGED <<query, result>>
    /\ LoopUnchanged

\* line 287: the beam search ends when the frontier is empty
BuildBeamExit ==
    /\ search.status = "loop"
    /\ search.routine = "build_hnsw_graph"
    /\ Len(search.candidates.candidates) = 0
    /\ search' = [search EXCEPT !.status = "returned"]
    /\ UNCHANGED <<query, result>>
    /\ LoopUnchanged

\* lines 27-34 (called at line 226): the sampler starts at layer 0
SampleLayerCall ==
    /\ search.status = "idle"
    /\ \E level_generation_factor \in LevelFactors :
          search' = [status |-> "loop", routine |-> "determine_random_layer",
                     level_generation_factor |-> level_generation_factor,
                     layer |-> 0, last_draw |-> -1]
    /\ UNCHANGED <<query, result>>
    /\ LoopUnchanged

\* lines 35-36: a draw below the level factor adds a layer (layers past
\* MaxLayer are not told apart); last_draw is the value rand() gave, -1 before
\* the first draw
SampleLayerStep ==
    /\ search.status = "loop"
    /\ search.routine = "determine_random_layer"
    /\ \E draw \in RandDraws :
          /\ draw < search.level_generation_factor
          /\ search' = [search EXCEPT
                           !.layer = IF @ < MaxLayer THEN @ + 1 ELSE @,
                           !.last_draw = draw]
    /\ UNCHANGED <<query, result>>
    /\ LoopUnchanged

\* lines 35 and 38: a draw not below the level factor ends the loop
SampleLayerReturn ==
    /\ search.status = "loop"
    /\ search.routine = "determine_random_layer"
    /\ \E draw \in RandDraws :
          /\ ~(draw < search.level_generation_factor)
          /\ search' = [search EXCEPT !.status = "returned",
                                      !.last_draw = draw]
    /\ UNCHANGED <<query, result>>
    /\ LoopUnchanged

LoopNext ==
    \/ SearchLayerCall
    \/ SearchLoopStep
    \/ SearchLoopExit
    \/ SearchLayerReturn
    \/ BuildBeamCall
    \/ BuildBeamStep
    \/ BuildBeamExit
    \/ SampleLayerCall
    \/ SampleLayerStep
    \/ SampleLayerReturn

LoopSpec == LoopInit /\ [][LoopNext]_vars

\* the graphs of LoopGraphs in which every neighbor list is empty or names both
\* other nodes, so that every cycle over the three nodes occurs
LoopFairGraphs ==
    {g \in LoopGraphs :
        \A i \in 1..3 : Len(g[i].layer_connections[1]) \in {0, 2}}

LoopFairInit == LoopInit /\ nodes \in LoopFairGraphs

\* a running routine takes its next step, and the generator does not forever
\* withhold a draw that ends the sampler's loop when one exists
LoopFairSpec ==
    /\ LoopFairInit
    /\ [][LoopNext]_vars
    /\ WF_vars(LoopNext)
    /\ SF_vars(SampleLayerReturn)

\* a search_layer call has returned
SearchLayerReturned ==
    search.status = "returned" /\ search.routine = "search_layer"

\* the distance of node id to the query
QueryDistance(id) == calculate_euclidean_distance(query, vectors[id + 1])

\* C14: search_layer called with beam width ef >= 1 returns at most ef ids.
C14_AtMostEfResults ==
    SearchLayerReturned => Len(result) <= search.search_width

\* C15: the ids returned by search_layer are ordered closest first.
C15_ClosestFirst ==
    SearchLayerReturned =>
        \A i, j \in 1..Len(result) :
            i < j => QueryDistance(result[i]) <= QueryDistance(result[j])

\* C15 witness: a search that returned three ids at three different distances.
C15_Witness ==
    /\ SearchLayerReturned
    /\ Len(result) = 3
    /\ QueryDistance(result[1]) < QueryDistance(result[2])
    /\ QueryDistance(result[2]) < QueryDistance(result[3])

\* C19: in every search_layer call the first returned id has the minimum
\* distance to the query among all nodes whose distance was computed during
\* the call (the flagged ones, entry point included), so a layer of the
\* descent never hands on an entry point farther than the one it was given.
C19_FirstIsClosestComputed ==
    SearchLayerReturned =>
        /\ Len(result) >= 1
        /\ \A id \in search.visited_flags :
              QueryDistance(result[1]) <= QueryDistance(id)
        /\ QueryDistance(result[1]) <= QueryDistance(search.entry_point)

\* C19 witness: a width-1 search on layer 1, as the descent makes it, that
\* computed the distance of all three nodes and returned first a node closer
\* than its entry point.
C19_Witness ==
    /\ SearchLayerReturned
    /\ search.search_width = 1
    /\ search.layer = 1
    /\ search.visited_flags = {0, 1, 2}
    /\ QueryDistance(result[1]) < QueryDistance(search.entry_point)

\* the two loops over the graph end: search_layer returns and the builder's
\* beam search empties its frontier, on every graph of LoopGraphs
GraphLoopsTerminate ==
    (search.status = "loop" /\ search.routine # "determine_random_layer")
        ~> (search.status = "returned")

\* the stepped search_layer returns what the operator search_layer computes
SteppedSearchAgrees ==
    SearchLayerReturned =>
        result = search_layer(nodes, query, search.entry_point, search.layer,
                              search.search_width)

\* C18: every started loop of build_hnsw_graph (sampler and beam search) and of
\* search_layer is left after finitely many iterations.
C18_EveryLoopTerminates ==
    (search.status = "loop") ~> (search.status = "returned")

====
